---- MODULE Spec2Model ----
(***************************************************************************)
(* Blocking master-mode I2C transactions of the KubOS STM32F4 HAL          *)
(* (source/i2c.c): kprv_i2c_master_write, kprv_i2c_master_read and the     *)
(* flag-polling helpers they are built from.                               *)
(*                                                                         *)
(* One step of the model is one iteration of the polling loop of           *)
(* hal_i2c_check_flag_timeout.  An iteration that ends the wait also runs  *)
(* the straight-line code that follows it, up to the next wait or to the   *)
(* return of the call.  Every register access of that code is appended to  *)
(* `log`, in program order, so orderings of register accesses are state    *)
(* predicates over `log`.                                                  *)
(*                                                                         *)
(* The status flags of the controller (BUSY, SB, ADDR, TXE, BTF, RXNE) are *)
(* inputs: every sample may read set or clear.  AF is sticky: the hardware *)
(* may raise it at any time and only software clears it.                   *)
(***************************************************************************)
EXTENDS Integers, Sequences, FiniteSets, TLC

\* ------------------------------------------------------------------ bounds
\* Largest transfer length a call is made with.
MaxLen == 5

\* ------------------------------------------------------- program constants
FLAG_CHECK_TIMEOUT == 100

SET == TRUE
RESET == FALSE

\* KI2CStatus values returned by the functions of i2c.c
I2C_OK == "I2C_OK"
I2C_ERROR_AF == "I2C_ERROR_AF"
I2C_ERROR_ADDR_TIMEOUT == "I2C_ERROR_ADDR_TIMEOUT"
I2C_ERROR_TIMEOUT == "I2C_ERROR_TIMEOUT"
I2C_ERROR_NACK == "I2C_ERROR_NACK"
I2C_ERROR_TXE_TIMEOUT == "I2C_ERROR_TXE_TIMEOUT"
I2C_ERROR_BTF_TIMEOUT == "I2C_ERROR_BTF_TIMEOUT"
I2C_ERROR_NULL_HANDLE == "I2C_ERROR_NULL_HANDLE"

\* The loop of hal_i2c_check_flag_timeout goes round again (count++, vTaskDelay).
PENDING == "PENDING"

\* A null pointer (a handle, or hal_handle.Instance of a bus never initialised).
NULL == "NULL"

\* The bus the calls are made on, and its controller's register block.
K_I2C1 == "K_I2C1"
I2C1 == "I2C1"

\* ------------------------------------------------------------------- state
VARIABLES
    Instance,   \* hal_i2c_bus[K_I2C1].hal_handle.Instance: NULL until dev_init
    ACK,        \* CR1.ACK  of the controller
    POS,        \* CR1.POS  of the controller
    AF,         \* SR1.AF   of the controller (acknowledge failure, sticky)
    pc,         \* "idle", "fault", or the wait the running call is blocked in
    op,         \* "none", "write" or "read": the running (or last) call
    reqLen,     \* len argument of the call
    len,        \* local len: bytes remaining
    ptr,        \* ptr - (ptr argument): bytes consumed from / stored to the buffer
    buf,        \* the caller's buffer
    rx,         \* the bytes the slave puts on the bus, in order (read calls)
    count,      \* local count of hal_i2c_check_flag_timeout: the delays made by
                \* the running wait, or by the wait whose failure ended the call
    ret,        \* value returned by the last call that returned
    log         \* register accesses of the running (or last) call, in order

vars == <<Instance, ACK, POS, AF, pc, op, reqLen, len, ptr, buf, rx, count, ret, log>>

\* ------------------------------------------------------------ log entries
B2N(b) == IF b THEN 1 ELSE 0

\* A write to a control register bit, or a flag clear.
Ev(k) == [ev |-> k, flag |-> "-", st |-> "-", v |-> 0]
\* The end of a flag wait: the flag, the status returned, the last sample of the flag.
WaitEv(f, s, b) == [ev |-> "WAIT", flag |-> f, st |-> s, v |-> B2N(b)]
\* One sample of a flag outside a wait.
GetFlagEv(f, b) == [ev |-> "GET_FLAG", flag |-> f, st |-> "-", v |-> B2N(b)]
\* A data byte read from / written to DR, and the address byte written to DR.
RdEv(x) == [ev |-> "RD", flag |-> "DR", st |-> "-", v |-> x]
WrEv(x) == [ev |-> "WR", flag |-> "DR", st |-> "-", v |-> x]
AddrEv(dir) == [ev |-> "ADDR", flag |-> dir, st |-> "-", v |-> 0]
\* CR1 |= I2C_CR1_STOP, and the function whose statement it is.
StopEv(by) == [ev |-> "STOP", flag |-> "-", st |-> by, v |-> 0]

\* ----------------------------------------------------------------- inputs
\* First byte of the data of a call; byte i of the data is base + i.
Bases == {1, 3}

InitBuf == [i \in 0..MaxLen |-> 0]
Data(l, b) == [i \in 0..MaxLen |-> IF i < l THEN b + i ELSE 0]

\* The values AF can have at a sample: the hardware may have raised it.
AFNow == IF AF THEN {TRUE} ELSE BOOLEAN

Init ==
    /\ Instance = NULL
    /\ ACK = FALSE
    /\ POS = FALSE
    /\ AF = FALSE
    /\ pc = "idle"
    /\ op = "none"
    /\ reqLen = 0
    /\ len = 0
    /\ ptr = 0
    /\ buf = InitBuf
    /\ rx = InitBuf
    /\ count = 0
    /\ ret = I2C_OK
    /\ log = <<>>

\* ------------------------------------------------- flag waits (FlagPoller)
\* hal_i2c_check_flag_special: af is the sample of AF it takes (it takes one
\* only for BTF, TXE and ADDR).  ret is its result, evs its register writes.
\* Mutant of hal_i2c_check_flag_special: STOP for a set AF in every wait.
hal_i2c_check_flag_special_StopAlways(flag, af) ==
    IF flag \in {"BTF", "TXE", "ADDR"} /\ af
    THEN [ret |-> IF flag = "ADDR" THEN I2C_ERROR_AF ELSE I2C_ERROR_NACK,
          evs |-> <<StopEv("special"), Ev("CLR_AF")>>]
    ELSE [ret |-> I2C_OK, evs |-> <<>>]

\* Mutant of hal_i2c_check_flag_special: no STOP for a set AF in a wait on ADDR.
hal_i2c_check_flag_special_NoStop(flag, af) ==
    IF flag \in {"BTF", "TXE", "ADDR"} /\ af
    THEN [ret |-> IF flag = "ADDR" THEN I2C_ERROR_AF ELSE I2C_ERROR_NACK,
          evs |-> <<Ev("CLR_AF")>>]
    ELSE [ret |-> I2C_OK, evs |-> <<>>]

hal_i2c_check_flag_special(flag, af) ==
    IF flag \in {"BTF", "TXE"}
    THEN IF af
         THEN [ret |-> I2C_ERROR_NACK, evs |-> <<Ev("CLR_AF")>>]
         ELSE [ret |-> I2C_OK, evs |-> <<>>]
    ELSE IF flag = "ADDR"
    THEN IF af
         THEN [ret |-> I2C_ERROR_AF, evs |-> <<StopEv("special"), Ev("CLR_AF")>>]
         ELSE [ret |-> I2C_OK, evs |-> <<>>]
    ELSE [ret |-> I2C_OK, evs |-> <<>>]

\* Mutant of hal_i2c_check_flag_timeout: the count is checked before
\* hal_i2c_check_flag_special is called.
hal_i2c_check_flag_timeout_CountFirst(flag, status, cnt, fv, af) ==
    IF fv # status
    THEN [ret |-> I2C_OK, evs |-> <<WaitEv(flag, I2C_OK, fv)>>, AF |-> af]
    ELSE IF cnt >= FLAG_CHECK_TIMEOUT
    THEN [ret |-> I2C_ERROR_TIMEOUT,
          evs |-> <<WaitEv(flag, I2C_ERROR_TIMEOUT, fv)>>, AF |-> af]
    ELSE LET sp == hal_i2c_check_flag_special(flag, af) IN
         IF sp.ret # I2C_OK
         THEN [ret |-> sp.ret, evs |-> sp.evs \o <<WaitEv(flag, sp.ret, fv)>>,
               AF |-> FALSE]
         ELSE [ret |-> PENDING, evs |-> <<>>, AF |-> af]

\* Mutant of hal_i2c_check_flag_timeout: hal_i2c_check_flag_special is called
\* before the flag is compared with status.
hal_i2c_check_flag_timeout_SpecialFirst(flag, status, cnt, fv, af) ==
    LET sp == hal_i2c_check_flag_special(flag, af) IN
    IF sp.ret # I2C_OK
    THEN [ret |-> sp.ret, evs |-> sp.evs \o <<WaitEv(flag, sp.ret, fv)>>,
          AF |-> FALSE]
    ELSE IF fv # status
    THEN [ret |-> I2C_OK, evs |-> <<WaitEv(flag, I2C_OK, fv)>>, AF |-> af]
    ELSE IF cnt >= FLAG_CHECK_TIMEOUT
    THEN [ret |-> I2C_ERROR_TIMEOUT,
          evs |-> <<WaitEv(flag, I2C_ERROR_TIMEOUT, fv)>>, AF |-> af]
    ELSE [ret |-> PENDING, evs |-> <<>>, AF |-> af]

\* One iteration of the loop of hal_i2c_check_flag_timeout, with count = cnt:
\* fv is the sample of the flag, af the state of AF at that moment.
\* ret = PENDING: the loop goes round again.  AF is the state of AF afterwards.
hal_i2c_check_flag_timeout(flag, status, cnt, fv, af) ==
    IF fv # status
    THEN [ret |-> I2C_OK, evs |-> <<WaitEv(flag, I2C_OK, fv)>>, AF |-> af]
    ELSE LET sp == hal_i2c_check_flag_special(flag, af) IN
         IF sp.ret # I2C_OK
         THEN [ret |-> sp.ret, evs |-> sp.evs \o <<WaitEv(flag, sp.ret, fv)>>,
               AF |-> FALSE]
         ELSE IF cnt >= FLAG_CHECK_TIMEOUT
         THEN [ret |-> I2C_ERROR_TIMEOUT,
               evs |-> <<WaitEv(flag, I2C_ERROR_TIMEOUT, fv)>>, AF |-> af]
         ELSE [ret |-> PENDING, evs |-> <<>>, AF |-> af]

\* The switch statements of the three wrappers, applied to the status of the wait.
hal_i2c_check_addr_timeout(r) ==
    CASE r = I2C_OK -> I2C_OK
      [] r = I2C_ERROR_TIMEOUT -> I2C_ERROR_ADDR_TIMEOUT
      [] OTHER -> r

\* Mutant of hal_i2c_check_btf_timeout: every failure becomes the BTF timeout.
hal_i2c_check_btf_timeout_AllTimeout(r) ==
    IF r = I2C_OK THEN I2C_OK ELSE I2C_ERROR_BTF_TIMEOUT

hal_i2c_check_btf_timeout(r) ==
    CASE r = I2C_OK -> I2C_OK
      [] r = I2C_ERROR_TIMEOUT -> I2C_ERROR_BTF_TIMEOUT
      [] OTHER -> r

hal_i2c_check_txe_timeout(r) ==
    CASE r = I2C_OK -> I2C_OK
      [] r = I2C_ERROR_TIMEOUT -> I2C_ERROR_TXE_TIMEOUT
      [] OTHER -> r

\* Mutant of BusyWaitStatus: the BUSY wait goes through the ADDR wrapper.
BusyWaitStatus_AsAddr(r) == hal_i2c_check_addr_timeout(r)

\* The waits on BUSY and on SB call hal_i2c_check_flag_timeout directly and
\* return its status as it is.
BusyWaitStatus(r) == r
SbWaitStatus(r) == r

\* hal_i2c_get_handle: &hal_i2c_bus[num], the bus's entry of the static array,
\* named here by its index.  It is the address of an object, never NULL.
hal_i2c_get_handle(num) == num

\* ------------------------------------------------------------ step frames
\* count++; vTaskDelay(50): the wait goes on.
\* Mutant of Delay: count starts again from 0 instead of reaching the bound.
Delay_Wrap(af) ==
    /\ count' = (count + 1) % FLAG_CHECK_TIMEOUT
    /\ AF' = af
    /\ UNCHANGED <<Instance, ACK, POS, pc, op, reqLen, len, ptr, buf, rx, ret, log>>

Delay(af) ==
    /\ count' = count + 1
    /\ AF' = af
    /\ UNCHANGED <<Instance, ACK, POS, pc, op, reqLen, len, ptr, buf, rx, ret, log>>

\* The call goes on to the wait npc (or returns nret when npc = "idle").
Move(npc, nret, evs, nack, npos, naf, nlen, nptr, nbuf) ==
    /\ pc' = npc
    /\ ret' = nret
    /\ log' = log \o evs
    /\ ACK' = nack
    /\ POS' = npos
    /\ AF' = naf
    /\ len' = nlen
    /\ ptr' = nptr
    /\ buf' = nbuf
    /\ count' = 0
    /\ UNCHANGED <<Instance, op, reqLen, rx>>

\* A wait failed and the call returns st, after the register writes evs.
\* count keeps the value it had when the failing wait returned.
Fail(st, evs, naf) ==
    /\ pc' = "idle"
    /\ ret' = st
    /\ log' = log \o evs
    /\ AF' = naf
    /\ UNCHANGED <<Instance, ACK, POS, op, reqLen, len, ptr, buf, rx, count>>

\* --------------------------------------------------------- bus life cycle
\* kprv_i2c_dev_init: hal_i2c_device_init sets Instance, hal_i2c_hw_init
\* writes CR1 = GeneralCallMode | NoStretchMode (ACK and POS clear).
kprv_i2c_dev_init ==
    /\ pc = "idle"
    /\ Instance' = I2C1
    /\ ACK' = FALSE
    /\ POS' = FALSE
    /\ op' = "none"
    /\ log' = <<>>
    /\ ret' = I2C_OK
    /\ reqLen' = 0
    /\ len' = 0
    /\ ptr' = 0
    /\ buf' = InitBuf
    /\ rx' = InitBuf
    /\ UNCHANGED <<AF, pc, count>>

\* ------------------------------------------------------------ WriteEngine
\* kprv_i2c_master_write, lines 164-174: the call is made and enters
\* hal_i2c_master_setup_write.
kprv_i2c_master_write ==
    /\ pc = "idle"
    /\ Instance # NULL
    /\ \E l \in 0..MaxLen, b \in Bases :
        /\ op' = "write"
        /\ reqLen' = l
        /\ len' = l
        /\ ptr' = 0
        /\ buf' = Data(l, b)
        /\ rx' = InitBuf
        /\ log' = <<>>
        /\ count' = 0
        /\ IF hal_i2c_get_handle(K_I2C1) = NULL
           THEN pc' = "idle" /\ ret' = I2C_ERROR_NULL_HANDLE
           ELSE pc' = "w_busy" /\ ret' = I2C_OK
        /\ UNCHANGED <<Instance, ACK, POS, AF>>

\* Mutant of SetupWriteAbort: the return of lines 174-177 generates STOP.
SetupWriteAbort_Stop == <<StopEv("write")>>

\* Register writes of kprv_i2c_master_write when hal_i2c_master_setup_write
\* failed (lines 174-177): none, the status is returned as it is.
SetupWriteAbort == <<>>

\* hal_i2c_master_setup_write, the wait on BUSY; then POS is cleared and
\* hal_i2c_master_request_write generates START.
WriteWaitBusy ==
    /\ pc = "w_busy"
    /\ \E fv \in BOOLEAN, af \in AFNow :
        LET r == hal_i2c_check_flag_timeout("BUSY", SET, count, fv, af)
            st == BusyWaitStatus(r.ret)
        IN  IF r.ret = PENDING THEN Delay(af)
            ELSE IF st # I2C_OK THEN Fail(st, r.evs \o SetupWriteAbort, r.AF)
            ELSE Move("w_sb", ret, r.evs \o <<Ev("POS_DIS"), Ev("START")>>,
                      ACK, FALSE, r.AF, len, ptr, buf)

\* hal_i2c_master_request_write, the wait on SB; then the address is written.
WriteWaitSb ==
    /\ pc = "w_sb"
    /\ \E fv \in BOOLEAN, af \in AFNow :
        LET r == hal_i2c_check_flag_timeout("SB", RESET, count, fv, af)
            st == SbWaitStatus(r.ret)
        IN  IF r.ret = PENDING THEN Delay(af)
            ELSE IF st # I2C_OK THEN Fail(st, r.evs \o SetupWriteAbort, r.AF)
            ELSE Move("w_addr", ret, r.evs \o <<AddrEv("W")>>,
                      ACK, POS, r.AF, len, ptr, buf)

\* Register writes of kprv_i2c_master_write once its loop has ended (line 211).
WriteEpilogue == <<StopEv("write")>>

\* Mutant of WriteAbort: the error paths of the byte loop return without STOP.
WriteAbort_NoStop == <<>>

\* Register writes of kprv_i2c_master_write when a data-phase wait failed
\* (lines 182-187 and 202-207).
WriteAbort == <<StopEv("write")>>

\* The wait on ADDR; setup_write clears ADDR, and the byte loop is entered
\* (or, with nothing to write, left at once).
WriteWaitAddr ==
    /\ pc = "w_addr"
    /\ \E fv \in BOOLEAN, af \in AFNow :
        LET r == hal_i2c_check_flag_timeout("ADDR", RESET, count, fv, af)
            st == hal_i2c_check_addr_timeout(r.ret)
        IN  IF r.ret = PENDING THEN Delay(af)
            ELSE IF st # I2C_OK THEN Fail(st, r.evs \o SetupWriteAbort, r.AF)
            ELSE IF len > 0
            THEN Move("w_txe", ret, r.evs \o <<Ev("CLR_ADDR")>>,
                      ACK, POS, r.AF, len, ptr, buf)
            ELSE Move("idle", st, r.evs \o <<Ev("CLR_ADDR")>> \o WriteEpilogue,
                      ACK, POS, r.AF, len, ptr, buf)

\* Mutant of WriteAhead: the second byte is written whenever BTF reads set.
WriteAhead_NoLenCheck(btf, l) == btf

\* Whether the loop body writes a second byte (line 193): btf is the sample
\* of BTF, l the bytes remaining after the first write.
WriteAhead(btf, l) == btf /\ l # 0

\* The wait on TXE of the byte loop; then one byte is written, and a second
\* one when BTF reads set and a byte remains.
WriteWaitTxe ==
    /\ pc = "w_txe"
    /\ \E fv \in BOOLEAN, af \in AFNow, btf \in BOOLEAN :
        LET r == hal_i2c_check_flag_timeout("TXE", RESET, count, fv, af)
            st == hal_i2c_check_txe_timeout(r.ret)
            two == WriteAhead(btf, len - 1)
        IN  IF r.ret = PENDING THEN Delay(af)
            ELSE IF st # I2C_OK THEN Fail(st, r.evs \o WriteAbort, r.AF)
            ELSE Move("w_btf", ret,
                      r.evs \o <<WrEv(buf[ptr]), GetFlagEv("BTF", btf)>>
                            \o (IF two THEN <<WrEv(buf[ptr + 1])>> ELSE <<>>),
                      ACK, POS, r.AF,
                      IF two THEN len - 2 ELSE len - 1,
                      IF two THEN ptr + 2 ELSE ptr + 1, buf)

\* The wait on BTF of the byte loop; then the loop goes round or ends.
WriteWaitBtf ==
    /\ pc = "w_btf"
    /\ \E fv \in BOOLEAN, af \in AFNow :
        LET r == hal_i2c_check_flag_timeout("BTF", RESET, count, fv, af)
            st == hal_i2c_check_btf_timeout(r.ret)
        IN  IF r.ret = PENDING THEN Delay(af)
            ELSE IF st # I2C_OK THEN Fail(st, r.evs \o WriteAbort, r.AF)
            ELSE IF len > 0
            THEN Move("w_txe", ret, r.evs, ACK, POS, r.AF, len, ptr, buf)
            ELSE Move("idle", st, r.evs \o WriteEpilogue,
                      ACK, POS, r.AF, len, ptr, buf)

\* ------------------------------------------------------------- ReadEngine
\* kprv_i2c_master_read, lines 216-226: the call is made and enters
\* hal_i2c_master_setup_read.
kprv_i2c_master_read ==
    /\ pc = "idle"
    /\ Instance # NULL
    /\ \E l \in 0..MaxLen, b \in Bases :
        /\ op' = "read"
        /\ reqLen' = l
        /\ len' = l
        /\ ptr' = 0
        /\ buf' = InitBuf
        /\ rx' = Data(MaxLen + 1, b)
        /\ log' = <<>>
        /\ count' = 0
        /\ IF hal_i2c_get_handle(K_I2C1) = NULL
           THEN pc' = "idle" /\ ret' = I2C_ERROR_NULL_HANDLE
           ELSE pc' = "r_busy" /\ ret' = I2C_OK
        /\ UNCHANGED <<Instance, ACK, POS, AF>>

\* Mutant of ReadWaitBusy: POS is not cleared before START.
ReadWaitBusy_PosKept ==
    /\ pc = "r_busy"
    /\ \E fv \in BOOLEAN, af \in AFNow :
        LET r == hal_i2c_check_flag_timeout("BUSY", SET, count, fv, af)
            st == BusyWaitStatus(r.ret)
        IN  IF r.ret = PENDING THEN Delay(af)
            ELSE IF st # I2C_OK THEN Fail(st, r.evs, r.AF)
            ELSE Move("r_sb", ret, r.evs \o <<Ev("ACK_EN"), Ev("START")>>,
                      TRUE, POS, r.AF, len, ptr, buf)

\* hal_i2c_master_setup_read, the wait on BUSY; then POS is cleared and
\* hal_i2c_master_request_read enables ACK and generates START.
ReadWaitBusy ==
    /\ pc = "r_busy"
    /\ \E fv \in BOOLEAN, af \in AFNow :
        LET r == hal_i2c_check_flag_timeout("BUSY", SET, count, fv, af)
            st == BusyWaitStatus(r.ret)
        IN  IF r.ret = PENDING THEN Delay(af)
            ELSE IF st # I2C_OK THEN Fail(st, r.evs, r.AF)
            ELSE Move("r_sb", ret,
                      r.evs \o <<Ev("POS_DIS"), Ev("ACK_EN"), Ev("START")>>,
                      TRUE, FALSE, r.AF, len, ptr, buf)

\* hal_i2c_master_request_read, the wait on SB; then the address is written.
ReadWaitSb ==
    /\ pc = "r_sb"
    /\ \E fv \in BOOLEAN, af \in AFNow :
        LET r == hal_i2c_check_flag_timeout("SB", RESET, count, fv, af)
            st == SbWaitStatus(r.ret)
        IN  IF r.ret = PENDING THEN Delay(af)
            ELSE IF st # I2C_OK THEN Fail(st, r.evs, r.AF)
            ELSE Move("r_addr", ret, r.evs \o <<AddrEv("R")>>,
                      ACK, POS, r.AF, len, ptr, buf)

\* Mutant of SetupReadSwitch: case 0 clears ADDR and generates no STOP.
SetupReadSwitch_NoStop0(l, ack, pos) ==
    CASE l = 0 ->
           [ACK |-> ack, POS |-> pos, evs |-> <<Ev("CLR_ADDR")>>]
      [] l = 1 ->
           [ACK |-> FALSE, POS |-> pos,
            evs |-> <<Ev("ACK_DIS"), Ev("CLR_ADDR"), StopEv("setup_read")>>]
      [] l = 2 ->
           [ACK |-> FALSE, POS |-> TRUE,
            evs |-> <<Ev("ACK_DIS"), Ev("POS_EN"), Ev("CLR_ADDR")>>]
      [] OTHER ->
           [ACK |-> TRUE, POS |-> pos,
            evs |-> <<Ev("ACK_EN"), Ev("CLR_ADDR")>>]

\* Mutant of SetupReadSwitch: case 1 clears ADDR before it disables ACK.
SetupReadSwitch_AckLate1(l, ack, pos) ==
    CASE l = 0 ->
           [ACK |-> ack, POS |-> pos,
            evs |-> <<Ev("CLR_ADDR"), StopEv("setup_read")>>]
      [] l = 1 ->
           [ACK |-> FALSE, POS |-> pos,
            evs |-> <<Ev("CLR_ADDR"), Ev("ACK_DIS"), StopEv("setup_read")>>]
      [] l = 2 ->
           [ACK |-> FALSE, POS |-> TRUE,
            evs |-> <<Ev("ACK_DIS"), Ev("POS_EN"), Ev("CLR_ADDR")>>]
      [] OTHER ->
           [ACK |-> TRUE, POS |-> pos,
            evs |-> <<Ev("ACK_EN"), Ev("CLR_ADDR")>>]

\* Mutant of SetupReadSwitch: case 2 sets POS after it cleared ADDR.
SetupReadSwitch_PosLate2(l, ack, pos) ==
    CASE l = 0 ->
           [ACK |-> ack, POS |-> pos,
            evs |-> <<Ev("CLR_ADDR"), StopEv("setup_read")>>]
      [] l = 1 ->
           [ACK |-> FALSE, POS |-> pos,
            evs |-> <<Ev("ACK_DIS"), Ev("CLR_ADDR"), StopEv("setup_read")>>]
      [] l = 2 ->
           [ACK |-> FALSE, POS |-> TRUE,
            evs |-> <<Ev("ACK_DIS"), Ev("CLR_ADDR"), Ev("POS_EN")>>]
      [] OTHER ->
           [ACK |-> TRUE, POS |-> pos,
            evs |-> <<Ev("ACK_EN"), Ev("CLR_ADDR")>>]

\* Mutant of SetupReadSwitch: case 2 disables ACK and does not set POS.
SetupReadSwitch_NoPos2(l, ack, pos) ==
    CASE l = 0 ->
           [ACK |-> ack, POS |-> pos,
            evs |-> <<Ev("CLR_ADDR"), StopEv("setup_read")>>]
      [] l = 1 ->
           [ACK |-> FALSE, POS |-> pos,
            evs |-> <<Ev("ACK_DIS"), Ev("CLR_ADDR"), StopEv("setup_read")>>]
      [] l = 2 ->
           [ACK |-> FALSE, POS |-> pos,
            evs |-> <<Ev("ACK_DIS"), Ev("CLR_ADDR")>>]
      [] OTHER ->
           [ACK |-> TRUE, POS |-> pos,
            evs |-> <<Ev("ACK_EN"), Ev("CLR_ADDR")>>]

\* The switch (len) of hal_i2c_master_setup_read: the values it leaves in
\* CR1.ACK and CR1.POS, and its register writes.
SetupReadSwitch(l, ack, pos) ==
    CASE l = 0 ->
           [ACK |-> ack, POS |-> pos,
            evs |-> <<Ev("CLR_ADDR"), StopEv("setup_read")>>]
      [] l = 1 ->
           [ACK |-> FALSE, POS |-> pos,
            evs |-> <<Ev("ACK_DIS"), Ev("CLR_ADDR"), StopEv("setup_read")>>]
      [] l = 2 ->
           [ACK |-> FALSE, POS |-> TRUE,
            evs |-> <<Ev("ACK_DIS"), Ev("POS_EN"), Ev("CLR_ADDR")>>]
      [] OTHER ->
           [ACK |-> TRUE, POS |-> pos,
            evs |-> <<Ev("ACK_EN"), Ev("CLR_ADDR")>>]

\* Mutant of ReadBranch: the len == 3 case is missing, so three remaining
\* bytes are handled by the general branch.
ReadBranch_NoLen3(l) ==
    IF ~(l > 0) THEN "idle"
    ELSE IF l = 1 THEN "r_rxne1"
    ELSE IF l = 2 THEN "r_btf2"
    ELSE "r_rxneN"

\* Mutant of ReadBranch: the len == 1 case is missing, so one remaining byte
\* is handled by the general branch.
ReadBranch_NoLen1(l) ==
    IF ~(l > 0) THEN "idle"
    ELSE IF l = 2 THEN "r_btf2"
    ELSE IF l = 3 THEN "r_btf3a"
    ELSE "r_rxneN"

\* while (len > 0) and the if / else if chain of kprv_i2c_master_read: the
\* wait the call goes to with l bytes remaining ("idle": the loop ends and
\* the call returns).
ReadBranch(l) ==
    IF ~(l > 0) THEN "idle"
    ELSE IF l = 1 THEN "r_rxne1"
    ELSE IF l = 2 THEN "r_btf2"
    ELSE IF l = 3 THEN "r_btf3a"
    ELSE "r_rxneN"

\* val = DR; (*ptr++) = val; n times, starting at buffer position p.
RdEvs(p, n) == [i \in 1..n |-> RdEv(rx[p + i - 1])]
Store(bf, p, n) == [i \in DOMAIN bf |-> IF i >= p /\ i < p + n THEN rx[i] ELSE bf[i]]

\* The wait on ADDR; then the switch on len, and the loop is entered.
ReadWaitAddr ==
    /\ pc = "r_addr"
    /\ \E fv \in BOOLEAN, af \in AFNow :
        LET r == hal_i2c_check_flag_timeout("ADDR", RESET, count, fv, af)
            st == hal_i2c_check_addr_timeout(r.ret)
            sw == SetupReadSwitch(len, ACK, POS)
        IN  IF r.ret = PENDING THEN Delay(af)
            ELSE IF st # I2C_OK THEN Fail(st, r.evs, r.AF)
            ELSE Move(ReadBranch(len), st, r.evs \o sw.evs,
                      sw.ACK, sw.POS, r.AF, len, ptr, buf)

\* Mutant of ReadAbort: the error paths of the read loop generate STOP.
ReadAbort_Stop == <<StopEv("read")>>

\* Register writes of kprv_i2c_master_read when a wait of its loop failed
\* (lines 237-240, 250-253, 271-274, 285-288, 306-309): none, the status is
\* returned as it is.
ReadAbort == <<>>

\* The flag and the status argument of the wait of the len == 1 branch and of
\* the general branch (lines 237 and 306).
RxneWaitStatus == SET

\* len == 1 (lines 234-246).
ReadWaitRxne1 ==
    /\ pc = "r_rxne1"
    /\ \E fv \in BOOLEAN, af \in AFNow :
        LET r == hal_i2c_check_flag_timeout("RXNE", RxneWaitStatus, count, fv, af)
        IN  IF r.ret = PENDING THEN Delay(af)
            ELSE IF r.ret # I2C_OK THEN Fail(r.ret, r.evs \o ReadAbort, r.AF)
            ELSE Move(ReadBranch(len - 1), r.ret, r.evs \o RdEvs(ptr, 1),
                      ACK, POS, r.AF, len - 1, ptr + 1, Store(buf, ptr, 1))

\* Register writes of the len == 2 branch between its wait and its reads.
ReadLen2Stop == <<StopEv("read")>>

\* len == 2 (lines 247-267).
ReadWaitBtf2 ==
    /\ pc = "r_btf2"
    /\ \E fv \in BOOLEAN, af \in AFNow :
        LET r == hal_i2c_check_flag_timeout("BTF", RESET, count, fv, af)
            st == hal_i2c_check_btf_timeout(r.ret)
        IN  IF r.ret = PENDING THEN Delay(af)
            ELSE IF st # I2C_OK THEN Fail(st, r.evs \o ReadAbort, r.AF)
            ELSE Move(ReadBranch(len - 2), st,
                      r.evs \o ReadLen2Stop \o RdEvs(ptr, 2),
                      ACK, POS, r.AF, len - 2, ptr + 2, Store(buf, ptr, 2))

\* Mutant of ReadLen3First: the byte is read before ACK is disabled.
ReadLen3First_ReadThenNack(p) == RdEvs(p, 1) \o <<Ev("ACK_DIS")>>

\* Register accesses of the len == 3 branch after its first wait (lines
\* 276-282), the byte being read from buffer position p.
ReadLen3First(p) == <<Ev("ACK_DIS")>> \o RdEvs(p, 1)

\* len == 3, first half (lines 268-282): ACK is cleared, one byte is read.
ReadWaitBtf3a ==
    /\ pc = "r_btf3a"
    /\ \E fv \in BOOLEAN, af \in AFNow :
        LET r == hal_i2c_check_flag_timeout("BTF", RESET, count, fv, af)
            st == hal_i2c_check_btf_timeout(r.ret)
        IN  IF r.ret = PENDING THEN Delay(af)
            ELSE IF st # I2C_OK THEN Fail(st, r.evs \o ReadAbort, r.AF)
            ELSE Move("r_btf3b", ret,
                      r.evs \o ReadLen3First(ptr),
                      FALSE, POS, r.AF, len - 1, ptr + 1, Store(buf, ptr, 1))

\* len == 3, second half (lines 284-301): STOP, two bytes are read.
ReadWaitBtf3b ==
    /\ pc = "r_btf3b"
    /\ \E fv \in BOOLEAN, af \in AFNow :
        LET r == hal_i2c_check_flag_timeout("BTF", RESET, count, fv, af)
            st == hal_i2c_check_btf_timeout(r.ret)
        IN  IF r.ret = PENDING THEN Delay(af)
            ELSE IF st # I2C_OK THEN Fail(st, r.evs \o ReadAbort, r.AF)
            ELSE Move(ReadBranch(len - 2), st,
                      r.evs \o <<StopEv("read")>> \o RdEvs(ptr, 2),
                      ACK, POS, r.AF, len - 2, ptr + 2, Store(buf, ptr, 2))

\* Whether the general branch reads a second byte (line 317).
ReadAgain(btf) == btf

\* len > 3 (lines 303-323): one byte is read, and a second one when BTF reads set.
ReadWaitRxneN ==
    /\ pc = "r_rxneN"
    /\ \E fv \in BOOLEAN, af \in AFNow, btf \in BOOLEAN :
        LET r == hal_i2c_check_flag_timeout("RXNE", RxneWaitStatus, count, fv, af)
            n == IF ReadAgain(btf) THEN 2 ELSE 1
        IN  IF r.ret = PENDING THEN Delay(af)
            ELSE IF r.ret # I2C_OK THEN Fail(r.ret, r.evs \o ReadAbort, r.AF)
            ELSE Move(ReadBranch(len - n), r.ret,
                      r.evs \o RdEvs(ptr, 1) \o <<GetFlagEv("BTF", btf)>>
                            \o (IF n = 2 THEN RdEvs(ptr + 1, 1) ELSE <<>>),
                      ACK, POS, r.AF, len - n, ptr + n, Store(buf, ptr, n))

\* ----------------------------------------------- calls on a bus not set up
\* The statuses the two calls can return once past their handle check.
WriteStatuses ==
    {I2C_OK, I2C_ERROR_TIMEOUT, I2C_ERROR_ADDR_TIMEOUT, I2C_ERROR_AF,
     I2C_ERROR_NACK, I2C_ERROR_TXE_TIMEOUT, I2C_ERROR_BTF_TIMEOUT}
ReadStatuses ==
    {I2C_OK, I2C_ERROR_TIMEOUT, I2C_ERROR_ADDR_TIMEOUT, I2C_ERROR_AF,
     I2C_ERROR_NACK, I2C_ERROR_BTF_TIMEOUT}

\* kprv_i2c_master_write / kprv_i2c_master_read on a bus kprv_i2c_dev_init
\* never set up.  hal_i2c_get_handle returns the address of the bus's entry,
\* so the handle check passes and the setup function reads the BUSY flag
\* through hal_handle->Instance, which is a null pointer (the entry is a
\* zero-initialised static).  That access is undefined behaviour: it faults,
\* or it yields some value and the call runs on through the null pointer and
\* returns one of its statuses.  The controller itself is not accessed.
CallWithoutInstance ==
    /\ pc = "idle"
    /\ Instance = NULL
    /\ \E o \in {"write", "read"}, l \in 0..MaxLen, b \in Bases :
        /\ op' = o
        /\ reqLen' = l
        /\ len' = l
        /\ ptr' = 0
        /\ buf' = IF o = "write" THEN Data(l, b) ELSE InitBuf
        /\ rx' = InitBuf
        /\ count' = 0
        /\ IF hal_i2c_get_handle(K_I2C1) = NULL
           THEN pc' = "idle" /\ ret' = I2C_ERROR_NULL_HANDLE /\ log' = <<>>
           ELSE /\ log' = <<Ev("NULL_DEREF")>>
                /\ \/ pc' = "fault" /\ ret' = ret
                   \/ /\ pc' = "idle"
                      /\ ret' \in (IF o = "write" THEN WriteStatuses ELSE ReadStatuses)
        /\ UNCHANGED <<Instance, ACK, POS, AF>>

Next ==
    \/ kprv_i2c_dev_init
    \/ kprv_i2c_master_write
    \/ WriteWaitBusy
    \/ WriteWaitSb
    \/ WriteWaitAddr
    \/ WriteWaitTxe
    \/ WriteWaitBtf
    \/ kprv_i2c_master_read
    \/ ReadWaitBusy
    \/ ReadWaitSb
    \/ ReadWaitAddr
    \/ ReadWaitRxne1
    \/ ReadWaitBtf2
    \/ ReadWaitBtf3a
    \/ ReadWaitBtf3b
    \/ ReadWaitRxneN
    \/ CallWithoutInstance

Spec == Init /\ [][Next]_vars

\* The steps of a running call.
CallStep ==
    \/ WriteWaitBusy \/ WriteWaitSb \/ WriteWaitAddr \/ WriteWaitTxe \/ WriteWaitBtf
    \/ ReadWaitBusy \/ ReadWaitSb \/ ReadWaitAddr \/ ReadWaitRxne1
    \/ ReadWaitBtf2 \/ ReadWaitBtf3a \/ ReadWaitBtf3b \/ ReadWaitRxneN

\* The task that made a call keeps running it: vTaskDelay (line 625) returns
\* and every other statement of a call completes.  Nothing obliges the
\* application to make a call.
LiveSpec == Spec /\ WF_vars(CallStep)

\* ================================================================ properties
\* Positions of `log` holding an entry of kind k, and how many there are.
Idx(k) == {i \in 1..Len(log) : log[i].ev = k}
Count(k) == Cardinality(Idx(k))
Last == log[Len(log)]

\* The running (or last) call was made on a bus that is set up.
OnBus(o) == op = o /\ Instance # NULL
\* ... and it has returned.
Returned(o) == OnBus(o) /\ pc = "idle"

\* The wait on ADDR of the call ended with success.
AddrPhaseOk == \E i \in 1..Len(log) : log[i] = WaitEv("ADDR", I2C_OK, TRUE)

\* Positions of the waits that failed.
FailedWaits == {i \in Idx("WAIT") : log[i].st # I2C_OK}

\* The last write to CR1.ACK (CR1.POS) before position c was a disable (enable).
AckOffAt(c) ==
    \E a \in Idx("ACK_DIS") : a < c /\ \A e \in Idx("ACK_EN") : ~(a < e /\ e < c)
AckOnAt(c) ==
    \E a \in Idx("ACK_EN") : a < c /\ \A e \in Idx("ACK_DIS") : ~(a < e /\ e < c)
PosOnAt(c) ==
    \E a \in Idx("POS_EN") : a < c /\ \A e \in Idx("POS_DIS") : ~(a < e /\ e < c)

\* C1: a master_write whose address phase succeeded generates no STOP while
\* it runs and exactly one by the time it returns, as its last register
\* access: on success after reqLen bytes were written to DR, on failure
\* right after the first (and only) failing TXE/BTF wait.
C1_WriteExactlyOneStop ==
    (OnBus("write") /\ AddrPhaseOk) =>
        /\ pc # "idle" => Count("STOP") = 0 /\ FailedWaits = {}
        /\ pc = "idle" =>
            /\ Count("STOP") = 1
            /\ Last = StopEv("write")
            /\ ret = I2C_OK => Count("WR") = reqLen /\ FailedWaits = {}
            /\ ret # I2C_OK =>
                /\ FailedWaits = {Len(log) - 1}
                /\ log[Len(log) - 1].flag \in {"TXE", "BTF"}

\* C1 witness: a write of MaxLen bytes aborted by a data NACK after at least
\* one byte went out, with its one STOP.
C1_Witness ==
    /\ Returned("write") /\ AddrPhaseOk
    /\ reqLen = MaxLen /\ ret = I2C_ERROR_NACK
    /\ Count("WR") >= 1 /\ Count("STOP") = 1

\* C2: a master_read of N >= 1 bytes that returns success disabled ACK before
\* it generated STOP and before it read the last byte, and returns with
\* CR1.ACK clear.
C2_LastByteNacked ==
    (Returned("read") /\ reqLen >= 1 /\ ret = I2C_OK) =>
        /\ ~ACK
        /\ \A s \in Idx("STOP") : AckOffAt(s)
        /\ \A r \in Idx("RD") : (\A q \in Idx("RD") : q <= r) => AckOffAt(r)

\* C3: in a master_read of more than 3 bytes, when the general branch leaves
\* R bytes, CR1.ACK and CR1.POS are what a direct call with length R has
\* committed before it cleared ADDR (the tail itself is the same branch of
\* the same loop in both calls).
C3_TailAsDirectCall ==
    (OnBus("read") /\ reqLen > 3 /\ pc \in {"r_rxne1", "r_btf2", "r_btf3a"}) =>
        LET direct == SetupReadSwitch(len, TRUE, FALSE)
        IN  ACK = direct.ACK /\ POS = direct.POS

\* C4: a wait on RXNE returns success only on a sample that read RXNE set,
\* so every byte read after such a wait is read with RXNE seen set.
C4_ReadAfterRxneSet ==
    OnBus("read") =>
        \A i \in Idx("WAIT") :
            (log[i].flag = "RXNE" /\ log[i].st = I2C_OK) => log[i].v = 1

\* C5: a master_write or master_read on a bus that was never set up returns
\* I2C_ERROR_NULL_HANDLE and accesses no register.
C5_NullHandleRejected ==
    (op # "none" /\ Instance = NULL) =>
        pc = "idle" /\ ret = I2C_ERROR_NULL_HANDLE /\ log = <<>>

\* C6: in a master_read of length 2, ACK is disabled and POS set before ADDR
\* is cleared, and no STOP has been generated by then; STOP is generated
\* right after the BTF wait succeeded and before any byte is read; a
\* successful call reads exactly two bytes.
C6_ReadLen2Order ==
    (OnBus("read") /\ reqLen = 2 /\ AddrPhaseOk) =>
        /\ \A c \in Idx("CLR_ADDR") :
            /\ AckOffAt(c) /\ PosOnAt(c)
            /\ \A s \in Idx("STOP") : s > c + 1
        /\ \A s \in Idx("STOP") :
            /\ log[s - 1] = WaitEv("BTF", I2C_OK, TRUE)
            /\ \A r \in Idx("RD") : s < r
        /\ Count("RD") > 0 => Count("STOP") = 1
        /\ (pc = "idle" /\ ret = I2C_OK) =>
            /\ Count("RD") = 2 /\ Count("STOP") = 1
            /\ log[Len(log) - 2] = StopEv("read")

\* C6 witness: a successful read of two bytes.
C6_Witness ==
    /\ Returned("read") /\ reqLen = 2 /\ ret = I2C_OK
    /\ Count("RD") = 2 /\ POS /\ ~ACK

\* C7: in a master_read of length 3, ACK is enabled when ADDR is cleared; ACK
\* is disabled right after the first BTF wait succeeded and right before the
\* first byte is read; STOP is generated right after the second BTF wait
\* succeeded and right before the last two bytes are read.
C7_ReadLen3Order ==
    (OnBus("read") /\ reqLen = 3 /\ AddrPhaseOk) =>
        /\ \A c \in Idx("CLR_ADDR") : AckOnAt(c)
        /\ pc = "r_btf3a" => ACK /\ Count("RD") = 0
        /\ \A a \in Idx("ACK_DIS") :
            /\ log[a - 1] = WaitEv("BTF", I2C_OK, TRUE)
            /\ Cardinality({w \in Idx("WAIT") : w < a /\ log[w].flag = "BTF"}) = 1
            /\ log[a + 1].ev = "RD"
            /\ \A r \in Idx("RD") : a < r
        /\ \A s \in Idx("STOP") :
            /\ log[s - 1] = WaitEv("BTF", I2C_OK, TRUE)
            /\ Cardinality({w \in Idx("WAIT") : w < s /\ log[w].flag = "BTF"}) = 2
            /\ {r \in Idx("RD") : r < s} = {s - 2}
            /\ {r \in Idx("RD") : r > s} = {s + 1, s + 2}
            /\ AckOffAt(s)
        /\ (pc = "idle" /\ ret = I2C_OK) => Count("RD") = 3 /\ Count("STOP") = 1

\* C7 witness: a successful read of three bytes.
C7_Witness ==
    /\ Returned("read") /\ reqLen = 3 /\ ret = I2C_OK
    /\ Count("RD") = 3 /\ ~ACK /\ ~POS

\* C8: in a master_read of length 1, ACK is disabled before ADDR is cleared,
\* STOP is generated right after the clear and before the byte is read, and
\* a successful call reads exactly one byte.
C8_ReadLen1Order ==
    (OnBus("read") /\ reqLen = 1 /\ AddrPhaseOk) =>
        /\ Count("CLR_ADDR") = 1 /\ Count("STOP") = 1
        /\ \A c \in Idx("CLR_ADDR") :
            /\ AckOffAt(c)
            /\ log[c + 1] = StopEv("setup_read")
            /\ \A r \in Idx("RD") : c + 1 < r
        /\ Count("RD") <= 1
        /\ (pc = "idle" /\ ret = I2C_OK) => Count("RD") = 1 /\ ~ACK

\* C8 witness: a successful read of one byte.
C8_Witness ==
    /\ Returned("read") /\ reqLen = 1 /\ ret = I2C_OK
    /\ Count("RD") = 1 /\ buf[0] = rx[0]

\* C9: a master_read of length 0 whose address phase succeeded has returned
\* success, having done the address phase, cleared ADDR, generated one STOP
\* and nothing more: no byte read, the buffer as the caller passed it.
C9_ReadLen0 ==
    (OnBus("read") /\ reqLen = 0 /\ AddrPhaseOk) =>
        /\ pc = "idle" /\ ret = I2C_OK
        /\ [i \in 1..Len(log) |-> log[i].ev] =
             <<"WAIT", "POS_DIS", "ACK_EN", "START", "WAIT", "ADDR", "WAIT",
               "CLR_ADDR", "STOP">>
        /\ FailedWaits = {}
        /\ Count("RD") = 0 /\ ptr = 0 /\ buf = InitBuf

\* C9 witness: a read of length 0 that got through its address phase.
C9_Witness ==
    /\ Returned("read") /\ reqLen = 0 /\ AddrPhaseOk
    /\ Count("STOP") = 1 /\ Count("START") = 1

\* The call returned because its wait on flag f ran out of polls.
StalledOn(f) ==
    /\ pc = "idle" /\ op # "none" /\ Instance # NULL /\ Len(log) > 0
    /\ Last.ev = "WAIT" /\ Last.flag = f /\ Last.st = I2C_ERROR_TIMEOUT

\* C10 as stated: a call that stalls on BUSY or on SB returns a kind of its
\* own (busy-timeout, start-timeout), which is not the generic timeout.
C10_StallKindsDistinct ==
    (StalledOn("BUSY") \/ StalledOn("SB")) => ret # I2C_ERROR_TIMEOUT

\* C10: a call that stalls on BUSY, and a call that stalls on SB, both return
\* the generic I2C_ERROR_TIMEOUT (which is not the address timeout), having
\* generated no STOP; a stall on BUSY comes before START, a stall on SB after.
C10_StallIsGenericTimeout ==
    /\ (StalledOn("BUSY") \/ StalledOn("SB")) =>
           /\ ret = I2C_ERROR_TIMEOUT
           /\ ret # I2C_ERROR_ADDR_TIMEOUT
           /\ Count("STOP") = 0 /\ Count("ADDR") = 0
    /\ StalledOn("BUSY") => Count("START") = 0 /\ Len(log) = 1
    /\ StalledOn("SB") => Count("START") = 1
    /\ StalledOn("ADDR") => ret = I2C_ERROR_ADDR_TIMEOUT

\* C10 witness: a read that stalled waiting for SB.
C10_Witness ==
    StalledOn("SB") /\ op = "read" /\ ret = I2C_ERROR_TIMEOUT

\* The values of the log entries of kind k, in the order of the log.
Values(k) == [j \in 1..Count(k) |->
                 log[CHOOSE i \in Idx(k) : Cardinality({h \in Idx(k) : h <= i}) = j].v]

\* C11: at every point of a master_read of length N the bytes read from DR
\* are ptr <= N in number and sit in buffer positions 0..ptr-1 in the order
\* they were read, the rest of the buffer being untouched; the call returns
\* success only with ptr = N.
C11_ReadAllOrError ==
    OnBus("read") =>
        /\ Count("RD") = ptr /\ ptr <= reqLen /\ len = reqLen - ptr
        /\ \A i \in 0..MaxLen :
               buf[i] = IF i < ptr THEN Values("RD")[i + 1] ELSE InitBuf[i]
        /\ \A i \in 0..(ptr - 1) : buf[i] = rx[i]
        /\ (pc = "idle" /\ ret = I2C_OK) => ptr = reqLen

\* C11 witness: a successful read of MaxLen bytes in which the general
\* branch read two bytes in one iteration.
C11_Witness ==
    /\ Returned("read") /\ reqLen = MaxLen /\ ret = I2C_OK /\ ptr = MaxLen
    /\ \E i \in Idx("GET_FLAG") : log[i].v = 1

\* A master_read returned an error from its data phase.
ReadDataError == Returned("read") /\ ret # I2C_OK /\ AddrPhaseOk

\* C12 as stated: when a master_read returns an error from its data phase,
\* the ACK-disable and POS settings of its length policy are no longer in
\* effect: CR1.ACK is set and CR1.POS is clear.
C12_NoPolicyLeftLive ==
    ReadDataError => ACK /\ ~POS

\* C12: when a master_read returns an error, CR1.ACK and CR1.POS are what the
\* call had last written to them and nothing is undone: after a failure in
\* the address phase ACK is on and POS off; after a failure in the data
\* phase a length-1 read leaves ACK off, a length-2 read leaves ACK off and
\* POS on, and a longer read leaves ACK off exactly when the first BTF wait
\* of its last three bytes had succeeded.
C12_PolicyLeftAsSet ==
    (Returned("read") /\ ret # I2C_OK /\ Count("START") = 1) =>
        /\ ~AddrPhaseOk => ACK /\ ~POS
        /\ (AddrPhaseOk /\ reqLen = 1) => ~ACK /\ ~POS
        /\ (AddrPhaseOk /\ reqLen = 2) => ~ACK /\ POS
        /\ (AddrPhaseOk /\ reqLen >= 3) =>
            /\ ~POS
            /\ ACK <=> Count("ACK_DIS") = 0
            /\ \A a \in Idx("ACK_DIS") :
                   log[a - 1] = WaitEv("BTF", I2C_OK, TRUE) /\ ptr = reqLen - 2

\* C12 witness: a length-2 read whose BTF wait timed out, returning with ACK
\* off and POS on.
C12_Witness ==
    /\ ReadDataError /\ reqLen = 2 /\ ret = I2C_ERROR_BTF_TIMEOUT
    /\ ~ACK /\ POS

\* The flags whose waits sample AF (hal_i2c_check_flag_special).
AfFlags == {"TXE", "BTF", "ADDR"}

\* C13: a wait makes at most FLAG_CHECK_TIMEOUT delays; it ends with the
\* generic timeout only on the sample after the FLAG_CHECK_TIMEOUT-th delay,
\* and, on TXE, BTF and ADDR, only with AF not seen set on that sample (AF
\* is sticky, so on none before it); a wait that saw AF set ended with
\* I2C_ERROR_NACK (TXE, BTF) or I2C_ERROR_AF (ADDR), whatever the count,
\* and these three outcomes are different values.
C13_TimeoutAfterBound ==
    /\ count \in 0..FLAG_CHECK_TIMEOUT
    /\ Cardinality({I2C_ERROR_TIMEOUT, I2C_ERROR_NACK, I2C_ERROR_AF}) = 3
    /\ (pc = "idle" /\ op # "none" /\ Instance # NULL) =>
        \A i \in FailedWaits :
            /\ log[i].st \in {I2C_ERROR_TIMEOUT, I2C_ERROR_NACK, I2C_ERROR_AF}
            /\ log[i].st = I2C_ERROR_TIMEOUT =>
                /\ count = FLAG_CHECK_TIMEOUT
                /\ log[i].flag \in AfFlags => ~AF /\ Count("CLR_AF") = 0
            /\ log[i].st = I2C_ERROR_NACK =>
                log[i].flag \in {"TXE", "BTF"} /\ log[i - 1] = Ev("CLR_AF")
            /\ log[i].st = I2C_ERROR_AF =>
                log[i].flag = "ADDR" /\ log[i - 1] = Ev("CLR_AF")

\* C13 witness: AF was seen set on the sample after the last delay of a TXE
\* wait, and the wait returned I2C_ERROR_NACK.
C13_Witness ==
    /\ Returned("write") /\ count = FLAG_CHECK_TIMEOUT
    /\ \E i \in FailedWaits : log[i].flag = "TXE" /\ log[i].st = I2C_ERROR_NACK

\* The waits on TXE, BTF and ADDR, and the flag each one waits for.
AfWaits == {"w_addr", "w_txe", "w_btf", "r_addr", "r_btf2", "r_btf3a", "r_btf3b"}
WaitFlag(p) ==
    CASE p \in {"w_addr", "r_addr"} -> "ADDR"
      [] p = "w_txe" -> "TXE"
      [] OTHER -> "BTF"
\* The error hal_i2c_check_flag_special gives for a set AF in a wait on f.
AfError(f) == IF f = "ADDR" THEN I2C_ERROR_AF ELSE I2C_ERROR_NACK

\* A wait on TXE, BTF or ADDR is entered with AF set.
EnteredWithAf == pc \in AfWaits /\ AF /\ count = 0 /\ Instance # NULL

\* C14, as stated: a wait on TXE, BTF or ADDR entered with AF set returns
\* the NACK / address-acknowledge error, never success.
C14_AfBeatsReadyFlag ==
    [][EnteredWithAf => pc' = "idle" /\ ret' = AfError(WaitFlag(pc))]_vars

\* C14, amended: the flag is sampled first.  A wait on TXE, BTF or ADDR
\* that runs with AF set ends on its next sample, never with a delay or a
\* timeout: with success and AF left set when the flag is sampled in its
\* desired state, with the NACK / address-acknowledge error and AF cleared
\* when it is not.
C14_FlagSampledBeforeAf ==
    [][(pc \in AfWaits /\ AF /\ Instance # NULL) =>
        /\ Len(log') > Len(log)
        /\ \/ /\ log'[Len(log) + 1] = WaitEv(WaitFlag(pc), I2C_OK, TRUE)
              /\ AF'
              /\ pc' = "idle" => ret' = I2C_OK
           \/ /\ pc' = "idle" /\ ret' = AfError(WaitFlag(pc)) /\ ~AF'
              /\ \E i \in (Len(log) + 1)..Len(log') :
                     log'[i] = WaitEv(WaitFlag(pc), ret', FALSE)]_vars

\* C14 witness: a wait on BTF is entered with AF set, which the wait on TXE
\* before it, ended with success by its last sample, left set.
C14_Witness ==
    /\ EnteredWithAf /\ pc = "w_btf"
    /\ \E i \in Idx("WAIT") : log[i] = WaitEv("TXE", I2C_OK, TRUE)
    /\ Count("CLR_AF") = 0

\* A call on a bus that is set up has returned.
Done == pc = "idle" /\ op \in {"write", "read"} /\ Instance # NULL

\* C15: a call that returns I2C_ERROR_AF ends with the STOP of
\* hal_i2c_check_flag_special, the clearing of AF and the failed wait on
\* ADDR, in this order, and AF is clear; a call that returns I2C_ERROR_NACK
\* had AF cleared just before its failed wait, AF is clear, and
\* hal_i2c_check_flag_special generated no STOP.
C15_ClassifierSideEffects ==
    Done =>
        /\ ret = I2C_ERROR_AF =>
            /\ Len(log) >= 3
            /\ log[Len(log) - 2] = StopEv("special")
            /\ log[Len(log) - 1] = Ev("CLR_AF")
            /\ Last = WaitEv("ADDR", I2C_ERROR_AF, FALSE)
            /\ Count("CLR_AF") = 1
            /\ ~AF
        /\ ret = I2C_ERROR_NACK =>
            /\ \E i \in FailedWaits :
                /\ log[i].st = I2C_ERROR_NACK /\ log[i].flag \in {"TXE", "BTF"}
                /\ log[i - 1] = Ev("CLR_AF")
            /\ Count("CLR_AF") = 1
            /\ \A i \in Idx("STOP") : log[i] # StopEv("special")
            /\ ~AF

\* C15 witness: a read returned I2C_ERROR_AF.
C15_Witness == Returned("read") /\ ret = I2C_ERROR_AF /\ Count("STOP") = 1

\* The status a call returns for a wait on flag f that ended with status s.
Outcome(f, s) ==
    IF s # I2C_ERROR_TIMEOUT THEN s
    ELSE CASE f = "ADDR" -> I2C_ERROR_ADDR_TIMEOUT
           [] f = "BTF" -> I2C_ERROR_BTF_TIMEOUT
           [] f = "TXE" -> I2C_ERROR_TXE_TIMEOUT
           [] OTHER -> I2C_ERROR_TIMEOUT

\* C16: a failed wait ends the call: the call has returned the status of
\* that wait, only the generic timeout of a wait on ADDR, BTF or TXE being
\* renamed, and after the failed wait come no START, no access to DR, no
\* sample of a flag and no wait, only the STOP of the engine; a call none
\* of whose waits failed returns I2C_OK.
C16_ErrorsPropagated ==
    /\ (OnBus("write") \/ OnBus("read")) =>
        \A i \in FailedWaits :
            /\ pc = "idle"
            /\ ret = Outcome(log[i].flag, log[i].st)
            /\ ret # I2C_OK
            /\ \A j \in (i + 1)..Len(log) :
                   log[j] \in {StopEv("write"), StopEv("read")}
    /\ (Done /\ FailedWaits = {}) => ret = I2C_OK

\* C16 witness: AF ended a wait on BTF of a read, which returned I2C_ERROR_NACK.
C16_Witness ==
    /\ Returned("read") /\ ret = I2C_ERROR_NACK
    /\ \E i \in FailedWaits : log[i].flag = "BTF"

\* C17: a write that failed before its data phase wrote no byte and
\* generated no STOP of its own; it generated no STOP at all when a wait
\* timed out, and one, that of hal_i2c_check_flag_special, on I2C_ERROR_AF.
C17_SetupFailureNoEngineStop ==
    (Returned("write") /\ ~AddrPhaseOk) =>
        /\ ret \in {I2C_ERROR_TIMEOUT, I2C_ERROR_ADDR_TIMEOUT, I2C_ERROR_AF}
        /\ Count("WR") = 0
        /\ \A i \in Idx("STOP") : log[i] = StopEv("special")
        /\ ret # I2C_ERROR_AF => Count("STOP") = 0
        /\ ret = I2C_ERROR_AF => Count("STOP") = 1
        /\ ret = I2C_ERROR_TIMEOUT => Last.flag \in {"BUSY", "SB"}
        /\ ret # I2C_ERROR_TIMEOUT => Last.flag = "ADDR"

\* C17 witness: the wait on ADDR of a write timed out.
C17_Witness ==
    /\ Returned("write") /\ ret = I2C_ERROR_ADDR_TIMEOUT /\ reqLen > 0
    /\ Count("START") = 1 /\ Count("STOP") = 0

\* C18: the bytes written to DR are buf[0..ptr-1] in order, ptr <= reqLen,
\* and ptr = reqLen when the write succeeded; a byte is written either
\* straight after a successful wait on TXE, or as a second byte, straight
\* after a sample of BTF that read set and followed the first byte; that
\* second byte is written exactly when BTF read set and fewer than reqLen
\* bytes had been written.
C18_WriteInOrderInBounds ==
    OnBus("write") =>
        /\ Count("WR") = ptr /\ ptr <= reqLen /\ len = reqLen - ptr
        /\ \A j \in 1..ptr : Values("WR")[j] = buf[j - 1]
        /\ \E b \in Bases : buf = Data(reqLen, b)
        /\ (pc = "idle" /\ ret = I2C_OK) => ptr = reqLen
        /\ \A i \in Idx("WR") :
            \/ log[i - 1] = WaitEv("TXE", I2C_OK, TRUE)
            \/ /\ log[i - 1] = GetFlagEv("BTF", TRUE)
               /\ log[i - 2].ev = "WR"
               /\ log[i - 3] = WaitEv("TXE", I2C_OK, TRUE)
        /\ \A g \in Idx("GET_FLAG") :
            /\ log[g - 1].ev = "WR" /\ log[g - 2] = WaitEv("TXE", I2C_OK, TRUE)
            /\ (g < Len(log) /\ log[g + 1].ev = "WR") <=>
                   /\ log[g].v = 1
                   /\ Cardinality({i \in Idx("WR") : i < g}) < reqLen

\* C18 witness: a write of MaxLen bytes succeeded; BTF read set after the
\* last byte, where no second byte was written, and earlier, where one was.
C18_Witness ==
    /\ Returned("write") /\ ret = I2C_OK /\ reqLen = MaxLen /\ ptr = MaxLen
    /\ \E g \in Idx("GET_FLAG") : log[g].v = 1 /\ log[g + 1].ev = "WR"
    /\ \E g \in Idx("GET_FLAG") : log[g].v = 1 /\ log[g + 1].ev = "WAIT"

\* A call is running on a bus that is set up.
Running == pc \notin {"idle", "fault"} /\ Instance # NULL

\* The most waits a call of length l makes.
MaxWaits(o, l) == IF o = "write" THEN 3 + 2 * l ELSE 3 + l

\* What is left of a call at most, in samples of a flag: FLAG_CHECK_TIMEOUT + 1
\* for each wait not yet ended, less the delays of the running wait.
Rank == (MaxWaits(op, reqLen) - Count("WAIT")) * (FLAG_CHECK_TIMEOUT + 1) - count

\* The step ends a wait with success.
WaitPassed ==
    /\ Len(log') > Len(log)
    /\ log'[Len(log) + 1].ev = "WAIT" /\ log'[Len(log) + 1].st = I2C_OK

\* C19: every call returns.  A wait makes at most FLAG_CHECK_TIMEOUT delays;
\* a call of length L makes at most 3 + 2L (write) or 3 + L (read) waits;
\* every sample of a flag takes the call nearer its end; the remaining byte
\* count never grows, stays >= 0, and is smaller after every wait of the
\* byte loops that is followed by an access to DR; and under every
\* behaviour of the flags a running call returns.
C19_CallsReturn ==
    /\ [](/\ count \in 0..FLAG_CHECK_TIMEOUT
          /\ Running => Rank > 0 /\ len \in 0..reqLen
          /\ Done => Count("WAIT") <= MaxWaits(op, reqLen))
    /\ [][Running =>
            /\ Rank' < Rank
            /\ len' <= len
            /\ (WaitPassed /\ pc \in {"w_txe", "r_rxne1", "r_btf2", "r_btf3a",
                                      "r_btf3b", "r_rxneN"}) => len' < len
            /\ (WaitPassed /\ pc = "w_btf" /\ pc' # "idle") => len > 0]_vars
    /\ (Running ~> pc = "idle")

\* C19 witness: a read of MaxLen bytes returned after its last wait had made
\* every delay it could.
C19_Witness ==
    /\ Returned("read") /\ reqLen = MaxLen /\ ptr > 0
    /\ count = FLAG_CHECK_TIMEOUT /\ ret = I2C_ERROR_BTF_TIMEOUT

\* C20: a call generates at most one START and at most one STOP, the STOP
\* after the START; hal_i2c_check_flag_special and the engine never both
\* generate a STOP in one call.
C20_OneStartOneStop ==
    (OnBus("write") \/ OnBus("read")) =>
        /\ Count("START") <= 1
        /\ Count("STOP") <= 1
        /\ \A s \in Idx("STOP") : \E t \in Idx("START") : t < s
        /\ (\E s \in Idx("STOP") : log[s] = StopEv("special")) =>
               \A s \in Idx("STOP") : log[s] = StopEv("special")

\* C20 witness: a write whose wait on BTF ended with I2C_ERROR_NACK returned
\* with one START and one STOP, that of the engine.
C20_Witness ==
    /\ Returned("write") /\ ret = I2C_ERROR_NACK
    /\ Count("START") = 1 /\ Count("STOP") = 1
    /\ Last = StopEv("write")

\* C21: a read whose data phase failed generated no STOP if it was to read
\* two bytes or more; if it was to read one, the STOP of
\* hal_i2c_master_setup_read, and no other, came before the failed wait.
C21_ReadErrorLeavesBusOpen ==
    ReadDataError =>
        /\ reqLen >= 1
        /\ Last.ev = "WAIT" /\ Last.flag \in {"RXNE", "BTF"}
        /\ ret = Outcome(Last.flag, Last.st)
        /\ reqLen >= 2 => Count("STOP") = 0
        /\ reqLen = 1 =>
            /\ Count("STOP") = 1
            /\ \A s \in Idx("STOP") : log[s] = StopEv("setup_read")
            /\ Last.flag = "RXNE"

\* C21 witness: the second wait on BTF of a read of three bytes timed out,
\* after one byte was read; no STOP was generated.
C21_Witness ==
    /\ ReadDataError /\ reqLen = 3 /\ ptr = 1
    /\ ret = I2C_ERROR_BTF_TIMEOUT /\ Count("STOP") = 0

\* C22: the general branch of a read runs with more than 3 bytes remaining
\* and is left with 3 remaining, or with 2 when it read a second byte at 4
\* remaining, never with 1 or 0; when it is left with 2, the len == 2
\* branch waits for BTF and generates STOP with ACK still enabled and POS
\* clear, neither having been written since START.
C22_GeneralBranchExit ==
    /\ [](OnBus("read") =>
            /\ pc = "r_rxneN" => len > 3
            /\ reqLen > 3 =>
                /\ pc # "r_rxne1"
                /\ Running => len >= 2
                /\ pc = "r_btf2" =>
                    /\ len = 2 /\ ACK /\ ~POS
                    /\ Count("ACK_DIS") = 0 /\ Count("POS_EN") = 0
                    /\ Last.ev = "RD" /\ log[Len(log) - 1] = GetFlagEv("BTF", TRUE)
                /\ \A s \in Idx("STOP") :
                    log[s - 3] = GetFlagEv("BTF", TRUE) =>
                        /\ log[s] = StopEv("read")
                        /\ log[s - 1] = WaitEv("BTF", I2C_OK, TRUE)
                        /\ Count("ACK_DIS") = 0 /\ Count("POS_EN") = 0
                        /\ ACK /\ ~POS)
    /\ [][(OnBus("read") /\ pc = "r_rxneN" /\ WaitPassed) =>
            \/ pc' = "r_rxneN" /\ len' > 3
            \/ pc' = "r_btf3a" /\ len' = 3
            \/ /\ pc' = "r_btf2" /\ len' = 2 /\ len = 4
               /\ log'[Len(log')].ev = "RD"
               /\ log'[Len(log') - 1] = GetFlagEv("BTF", TRUE)
               /\ ACK' /\ ~POS']_vars

\* C22 witness: a read of four bytes left the general branch with 2 bytes
\* remaining, and the len == 2 branch generated STOP and read them, with ACK
\* enabled and POS clear.
C22_Witness ==
    /\ Returned("read") /\ reqLen = 4 /\ ret = I2C_OK /\ ptr = 4
    /\ \E s \in Idx("STOP") : log[s - 3] = GetFlagEv("BTF", TRUE)
    /\ ACK /\ ~POS

\* The step generates START.
StartStep ==
    /\ Instance # NULL
    /\ pc \in {"w_busy", "r_busy"} /\ pc' \in {"w_sb", "r_sb"}

\* C23: whatever the calls before it left in CR1, a call generates START
\* with POS clear, and a read with ACK enabled: the step that generates
\* START first disables POS (and, in a read, enables ACK), START is its last
\* register write, and POS is clear (ACK enabled) after it; no START is
\* generated in any other step.
C23_CleanAtStart ==
    /\ [][StartStep =>
            /\ log'[Len(log')] = Ev("START")
            /\ \E d \in (Len(log) + 1)..(Len(log') - 1) : log'[d] = Ev("POS_DIS")
            /\ \A e \in (Len(log) + 1)..Len(log') : log'[e] # Ev("POS_EN")
            /\ ~POS'
            /\ op = "read" =>
                /\ log'[Len(log') - 1] = Ev("ACK_EN")
                /\ \A e \in (Len(log) + 1)..Len(log') : log'[e] # Ev("ACK_DIS")
                /\ ACK']_vars
    /\ [][(Instance # NULL /\ ~StartStep /\ Len(log') >= Len(log)) =>
            \A e \in (Len(log) + 1)..Len(log') : log'[e] # Ev("START")]_vars
    /\ []((OnBus("write") \/ OnBus("read")) =>
            /\ pc \in {"w_busy", "r_busy"} => Count("START") = 0
            /\ pc \in {"r_sb", "r_addr"} => ACK /\ ~POS
            /\ pc \in {"w_sb", "w_addr"} => ~POS)

\* C23 witness: a read is about to generate START on a bus where a call
\* before it left POS set and ACK disabled.
C23_Witness ==
    /\ OnBus("read") /\ pc = "r_busy" /\ count = 0 /\ Count("START") = 0
    /\ POS /\ ~ACK

====
